---- MODULE Spec2Model ----
(***************************************************************************)
(* OneR discretisation of one attribute (d6y/oner_quantize, module         *)
(* quantize): find_intervals (sort, candidate splits, trim, build, merge)  *)
(* and quantize (point lookup).                                            *)
(*                                                                         *)
(* Indices are 0-based as in the Rust source; a slice data[start..until]   *)
(* is SubSeq(data, start + 1, until).  A pair (value, class) is the tuple  *)
(* <<value, class>>: pair.0 is p[1], pair.1 is p[2].  An Option is a       *)
(* sequence of length 0 (None) or 1 (Some).                                *)
(***************************************************************************)
EXTENDS Integers, Sequences, FiniteSets, TLC

\* Longest attribute / classes sequence drawn exhaustively, and largest `small`.
MaxLen == 5

\* Attribute values and class labels of the exhaustively drawn inputs.
Values == {1, 2, 3}
SmallClasses == {"a", "b"}
\* Every class label that occurs in some input of the model.
Classes == {"a", "b", "c", "d", "e", "p"}
Smalls == 0 .. MaxLen

SeqsUpTo(S) == UNION {[1 .. n -> S] : n \in 0 .. MaxLen}

\* The golf temperature data of the test in mod.rs and a five-class input
\* with majority ties (three values, eight observations).
GolfAttribute == <<64, 65, 68, 69, 70, 71, 72, 72, 75, 75, 80, 81, 83, 85>>
GolfClasses == <<"p", "d", "p", "p", "p", "d", "p", "d", "p", "p", "d", "p", "p", "d">>
TieAttribute == <<1, 1, 1, 2, 2, 2, 2, 3>>
TieClasses == <<"c", "b", "a", "d", "b", "a", "e", "b">>

Inputs ==
    {<<a, c>> : a \in SeqsUpTo(Values), c \in SeqsUpTo(SmallClasses)}
        \cup {<<GolfAttribute, GolfClasses>>, <<TieAttribute, TieClasses>>}

\* The low bits of the class labels' hash values.  Hasher(x, y) sends the
\* two labels of a two-class input to buckets x and y; CollidingHasher
\* makes "a" and "d" share a bucket of the 8-bucket table.
Hasher(x, y) ==
    [k \in Classes |-> IF k \in {"a", "p"} THEN x ELSE IF k \in {"b", "d"} THEN y ELSE 0]
CollidingHasher ==
    [k \in Classes |->
        CASE k = "a" -> 5 [] k = "b" -> 6 [] k = "c" -> 1
          [] k = "d" -> 5 [] k = "e" -> 0 [] OTHER -> 2]
Hashers == {Hasher(x, y) : x \in {1, 3}, y \in {1, 3}} \cup {CollidingHasher}

VARIABLES
    hash,         \* Hash for C as seen by the map: class label -> low hash bits
    pc,           \* position in find_intervals / quantize
    small,        \* the `small` argument
    sorted,       \* mod.rs `sorted`
    split_index,  \* mod.rs `split_index`
    trimmed,      \* mod.rs `split_index_trimmed`
    intervals,    \* mod.rs `intervals` (before the merge)
    result,       \* the list find_intervals returns
    q_list,       \* quantize's `intervals` argument
    query,        \* quantize's `attribute_value` argument (an Option: none before a call)
    found         \* quantize's result (an Option)

vars == <<hash, pc, small, sorted, split_index, trimmed, intervals, result, q_list, query, found>>

----------------------------------------------------------------------------
(* Interval<A, C> and its methods (crate::Interval, interval.rs).          *)

Lower(b, c) == [kind |-> "Lower", below |-> b, class |-> c]
Range(f, b, c) == [kind |-> "Range", from |-> f, below |-> b, class |-> c]
Upper(f, c) == [kind |-> "Upper", from |-> f, class |-> c]
Infinite(c) == [kind |-> "Infinite", class |-> c]

has_from(i) == i.kind \in {"Range", "Upper"}
has_below(i) == i.kind \in {"Lower", "Range"}

matches(i, value) ==
    CASE i.kind = "Lower" -> value < i.below
      [] i.kind = "Range" -> value >= i.from /\ value < i.below
      [] i.kind = "Upper" -> value >= i.from
      [] OTHER -> TRUE

\* The interval covering a run of neighbours: lower bound of the first,
\* upper bound of the last, the class of the first.
merge_pair(a, b) ==
    IF has_from(a)
    THEN IF has_below(b) THEN Range(a.from, b.below, a.class) ELSE Upper(a.from, a.class)
    ELSE IF has_below(b) THEN Lower(b.below, a.class) ELSE Infinite(a.class)

RECURSIVE merge_neighbours_with_same_class(_)
merge_neighbours_with_same_class(list) ==
    IF Len(list) < 2 THEN list
    ELSE IF list[1].class = list[2].class
         THEN merge_neighbours_with_same_class(
                  <<merge_pair(list[1], list[2])>> \o SubSeq(list, 3, Len(list)))
         ELSE <<list[1]>> \o merge_neighbours_with_same_class(Tail(list))

----------------------------------------------------------------------------
(* frequency_count: a HashMap<&T, usize, BuildHasherDefault<FxHasher>>.    *)
(* The map keeps its keys in a power-of-two bucket array: a new key goes   *)
(* to the first free bucket at or (cyclically) after hash & mask, the      *)
(* array grows 4 -> 8 -> 16 when its capacity (3, 7, 14) is used up,       *)
(* re-inserting the keys in iteration order, and iteration is in bucket    *)
(* order.  A table is [slots, counts]; slot i is slots[i + 1].             *)

EMPTY == ""

RECURSIVE find_insert_slot(_, _)
find_insert_slot(slots, pos) ==
    IF slots[pos + 1] = EMPTY THEN pos
    ELSE find_insert_slot(slots, (pos + 1) % Len(slots))

insert_no_grow(slots, k) ==
    [slots EXCEPT ![find_insert_slot(slots, hash[k] % Len(slots)) + 1] = k]

iter_keys(slots) == SelectSeq(slots, LAMBDA k : k # EMPTY)

bucket_mask_to_capacity(nb) ==
    IF nb = 0 THEN 0 ELSE IF nb < 8 THEN nb - 1 ELSE (nb \div 8) * 7

capacity_to_buckets(cap) == IF cap < 4 THEN 4 ELSE IF cap < 8 THEN 8 ELSE 16

RECURSIVE reinsert(_, _)
reinsert(slots, keys) ==
    IF keys = <<>> THEN slots
    ELSE reinsert(insert_no_grow(slots, Head(keys)), Tail(keys))

resize(slots, nb) == reinsert([i \in 1 .. nb |-> EMPTY], iter_keys(slots))

reserve_one(slots) ==
    LET items == Len(iter_keys(slots))
    IN  IF items = bucket_mask_to_capacity(Len(slots))
        THEN resize(slots, capacity_to_buckets(items + 1))
        ELSE slots

\* *counts.entry(t).or_insert(0) += 1
entry_add(table, t) ==
    IF t \in DOMAIN table.counts
    THEN [table EXCEPT !.counts[t] = @ + 1]
    ELSE [slots |-> insert_no_grow(reserve_one(table.slots), t),
          counts |-> (t :> 1) @@ table.counts]

RECURSIVE count_into(_, _)
count_into(table, ts) ==
    IF ts = <<>> THEN table ELSE count_into(entry_add(table, Head(ts)), Tail(ts))

frequency_count(ts) == count_into([slots |-> <<>>, counts |-> <<>>], ts)

\* Iterator::max_by_key over the map's entries keyed by the count: the
\* last of several equally large entries wins.
RECURSIVE max_by_key(_, _)
max_by_key(keys, counts) ==
    IF keys = <<>> THEN <<>>
    ELSE LET rest == max_by_key(Tail(keys), counts)
         IN  IF rest # <<>> /\ counts[rest[1]] >= counts[Head(keys)]
             THEN rest
             ELSE <<Head(keys)>>

class_slice(data, start, until) ==
    LET s == SubSeq(data, start + 1, until) IN [i \in 1 .. Len(s) |-> s[i][2]]

----------------------------------------------------------------------------
(* splits.rs                                                               *)

most_frequest_class(start, until, data) ==
    LET counts == frequency_count(class_slice(data, start, until))
    IN  max_by_key(iter_keys(counts.slots), counts.counts)

\* Faulty variant: the comparison is count < small.
no_dominant_class_lt(start, until, small_, data) ==
    LET counts == frequency_count(class_slice(data, start, until)).counts
    IN  \A c \in DOMAIN counts : counts[c] < small_

\* Faulty variant: the comparison is turned around, count >= small.
no_dominant_class_flipped(start, until, small_, data) ==
    LET counts == frequency_count(class_slice(data, start, until)).counts
    IN  \A c \in DOMAIN counts : counts[c] >= small_

no_dominant_class(start, until, small_, data) ==
    LET counts == frequency_count(class_slice(data, start, until)).counts
    IN  \A c \in DOMAIN counts : counts[c] <= small_

\* Faulty variant: a missing next split counts as the same class.
next_split_same_class_none(start, until, data, next) ==
    \/ next = <<>>
    \/ most_frequest_class(until, Head(next), data) = most_frequest_class(start, until, data)

\* `next` is tail.first(): an Option.
next_split_same_class(start, until, data, next) ==
    LET class == most_frequest_class(start, until, data)
        next_class == IF next = <<>> THEN <<>>
                      ELSE most_frequest_class(until, next[1], data)
    IN  next_class = class

first(s) == IF s = <<>> THEN <<>> ELSE <<Head(s)>>

RECURSIVE trim_splits0(_, _, _, _, _)
trim_splits0(splits, small_, data, keep, start_index) ==
    IF splits # <<>>
    THEN LET head == Head(splits)
             tail == Tail(splits)
         IN  IF no_dominant_class(start_index, head, small_, data)
                  \/ next_split_same_class(start_index, head, data, first(tail))
             THEN trim_splits0(tail, small_, data, keep, start_index)
             ELSE trim_splits0(tail, small_, data, Append(keep, head), head)
    ELSE keep

trim_splits(splits, small_, data) == trim_splits0(splits, small_, data, <<>>, 0)

\* Faulty variant: the class of the first observation of the range.
first_class(start, until, data) == first(class_slice(data, start, until))

\* The closure most_frequent_class of intervals_from_splits, before the
\* unwrap: ord_subset_max_by_key also returns the last maximum.
most_frequent_class(start, until, data) ==
    LET counts == frequency_count(class_slice(data, start, until))
    IN  max_by_key(iter_keys(counts.slots), counts.counts)

\* The (start, until) ranges intervals_from_splits hands to
\* most_frequent_class, in the order of the intervals.
split_ranges(splits, data) ==
    LET n == Len(splits)
    IN  IF n = 0 THEN <<<<0, Len(data)>>>>
        ELSE <<<<0, splits[1]>>>>
                 \o [i \in 1 .. n - 1 |-> <<splits[i], splits[i + 1]>>]
                 \o <<<<splits[n], Len(data)>>>>

\* largest.unwrap_or_else(|| panic!(...)) fires for some range.
no_classes_panic(splits, data) ==
    \E i \in 1 .. Len(split_ranges(splits, data)) :
        most_frequent_class(split_ranges(splits, data)[i][1],
                            split_ranges(splits, data)[i][2], data) = <<>>

intervals_from_splits(splits, data) ==
    LET n == Len(splits)
        class(start, until) == Head(most_frequent_class(start, until, data))
        lower(index) == Lower(data[index + 1][1], class(0, index))
        upper(index) == Upper(data[index + 1][1], class(index, Len(data)))
        range(index_start, index_end) ==
            Range(data[index_start + 1][1], data[index_end + 1][1],
                  class(index_start, index_end))
        infinite == Infinite(class(0, Len(data)))
    IN  IF n = 0 THEN <<infinite>>
        ELSE <<lower(splits[1])>>
                 \o [i \in 1 .. n - 1 |-> range(splits[i], splits[i + 1])]
                 \o <<upper(splits[n])>>

----------------------------------------------------------------------------
(* mod.rs                                                                  *)

zip(attribute, classes) ==
    LET n == IF Len(attribute) < Len(classes) THEN Len(attribute) ELSE Len(classes)
    IN  [i \in 1 .. n |-> <<attribute[i], classes[i]>>]

\* ord_subset_sort_by_key: a stable sort on pair.0.
RECURSIVE insert_by_key(_, _)
insert_by_key(s, p) ==
    IF s = <<>> THEN <<p>>
    ELSE IF p[1] < Head(s)[1] THEN <<p>> \o s
         ELSE <<Head(s)>> \o insert_by_key(Tail(s), p)

RECURSIVE sort_by_key(_)
sort_by_key(pairs) ==
    IF pairs = <<>> THEN <<>>
    ELSE insert_by_key(sort_by_key(SubSeq(pairs, 1, Len(pairs) - 1)), pairs[Len(pairs)])

\* Faulty variant: the comparison is >= instead of >.
candidate_splits_ge(data) ==
    LET RECURSIVE ascending(_, _)
        ascending(i, acc) ==
            IF i > Len(data) - 1 THEN acc
            ELSE ascending(i + 1, IF data[i + 1][1] >= data[i][1] THEN Append(acc, i) ELSE acc)
    IN  ascending(1, <<>>)

\* Step 2: prev_index + 1 for every cur_value > prev_value.
candidate_splits(data) ==
    LET at == {i \in 1 .. Len(data) - 1 : data[i + 1][1] > data[i][1]}
        RECURSIVE ascending(_, _)
        ascending(i, acc) ==
            IF i > Len(data) - 1 THEN acc
            ELSE ascending(i + 1, IF i \in at THEN Append(acc, i) ELSE acc)
    IN  ascending(1, <<>>)

\* Faulty variant: the built intervals are returned as they are.
keep_redundant(list) == list

\* Step 5: remove redundant intervals.
remove_redundant(list) == merge_neighbours_with_same_class(list)

RECURSIVE find(_, _)
find(list, value) ==
    IF list = <<>> THEN <<>>
    ELSE IF matches(Head(list), value) THEN <<Head(list)>>
         ELSE find(Tail(list), value)

\* Faulty variant: the last matching interval (rfind).
RECURSIVE rfind(_, _)
rfind(list, value) ==
    IF list = <<>> THEN <<>>
    ELSE IF matches(list[Len(list)], value) THEN <<list[Len(list)]>>
         ELSE rfind(SubSeq(list, 1, Len(list) - 1), value)

quantize(list, attribute_value) == find(list, attribute_value)

----------------------------------------------------------------------------
(* The state machine: one call of find_intervals, stage by stage, then     *)
(* quantize on the list it returned; or quantize on a hand-built list.     *)

\* Lists a caller builds by hand: the one of quantize's doc test, one with
\* an overlap and a gap, and the empty list.
DocList == <<Lower(15, "x"), Range(15, 20, "y"), Upper(20, "z")>>
OddList == <<Range(10, 20, "x"), Lower(18, "y"), Upper(35, "z"), Infinite("w")>>
GapList == <<Lower(15, "x"), Upper(35, "z")>>
HandLists == {DocList, OddList, GapList, <<>>}
HandQueries == {10, 15, 18, 20, 35, 99}
ResultQueries == {0, 1, 2, 3, 4}

Init ==
    /\ hash \in Hashers
    /\ pc = "idle"
    /\ small = 0
    /\ sorted = <<>>
    /\ split_index = <<>>
    /\ trimmed = <<>>
    /\ intervals = <<>>
    /\ result = <<>>
    /\ q_list = <<>>
    /\ query = <<>>
    /\ found = <<>>

\* find_intervals, step 1: zip and sort.
Sort(attribute, classes, small_) ==
    /\ pc = "idle"
    /\ small' = small_
    /\ sorted' = sort_by_key(zip(attribute, classes))
    /\ pc' = "sorted"
    /\ UNCHANGED <<hash, split_index, trimmed, intervals, result, q_list, query, found>>

\* Step 2: the tentative splits.
Split ==
    /\ pc = "sorted"
    /\ split_index' = candidate_splits(sorted)
    /\ pc' = "split"
    /\ UNCHANGED <<hash, small, sorted, trimmed, intervals, result, q_list, query, found>>

\* Step 3: trim_splits.
Trim ==
    /\ pc = "split"
    /\ trimmed' = trim_splits(split_index, small, sorted)
    /\ pc' = "trimmed"
    /\ UNCHANGED <<hash, small, sorted, split_index, intervals, result, q_list, query, found>>

\* Step 4: intervals_from_splits, which panics when a range has no class.
Build ==
    /\ pc = "trimmed"
    /\ IF no_classes_panic(trimmed, sorted)
       THEN pc' = "panic" /\ UNCHANGED intervals
       ELSE pc' = "built" /\ intervals' = intervals_from_splits(trimmed, sorted)
    /\ UNCHANGED <<hash, small, sorted, split_index, trimmed, result, q_list, query, found>>

\* Step 5: merge and return.
Merge ==
    /\ pc = "built"
    /\ result' = remove_redundant(intervals)
    /\ pc' = "done"
    /\ UNCHANGED <<hash, small, sorted, split_index, trimmed, intervals, q_list, query, found>>

\* quantize on the list find_intervals returned.
QuantizeResult(value) ==
    /\ pc = "done"
    /\ q_list' = result
    /\ query' = <<value>>
    /\ found' = quantize(result, value)
    /\ UNCHANGED <<hash, pc, small, sorted, split_index, trimmed, intervals, result>>

\* quantize on a hand-built list.
QuantizeGiven(list, value) ==
    /\ pc = "idle"
    /\ q_list' = list
    /\ query' = <<value>>
    /\ found' = quantize(list, value)
    /\ pc' = "lookup"
    /\ UNCHANGED <<hash, small, sorted, split_index, trimmed, intervals, result>>

Next ==
    \/ pc = "idle" /\ \E in \in Inputs, s \in Smalls : Sort(in[1], in[2], s)
    \/ Split
    \/ Trim
    \/ Build
    \/ Merge
    \/ pc = "done" /\ \E v \in ResultQueries : QuantizeResult(v)
    \/ pc = "idle" /\ \E l \in HandLists, v \in HandQueries : QuantizeGiven(l, v)

Spec == Init /\ [][Next]_vars

----------------------------------------------------------------------------
(* Vocabulary of the properties, counted directly on the sorted            *)
(* observations without the frequency map.                                 *)

\* find_intervals has returned `result` and quantize has not run yet.
Returned == pc = "done" /\ query = <<>>

\* The observations (positions of `sorted`) an interval covers.
Covered(i) == {k \in 1 .. Len(sorted) : matches(i, sorted[k][1])}

\* How often class c occurs among a set of positions of `sorted`.
Occurs(c, ks) == Cardinality({k \in ks : sorted[k][2] = c})

\* Some class occurs more than `small` times among the positions ks.
HasDominant(ks) == \E c \in Classes : Occurs(c, ks) > small

\* No class occurs more often than c among the positions ks.
IsMostFrequent(c, ks) == \A d \in Classes : Occurs(d, ks) <= Occurs(c, ks)

\* The positions of the half-open index range [start, until).
Segment(start, until) == start + 1 .. until

IsGolf == sorted = zip(GolfAttribute, GolfClasses)
IsTieInput == sorted = zip(TieAttribute, TieClasses)

----------------------------------------------------------------------------
(* Properties.                                                             *)

\* C1: for a non-empty input the returned list has strictly increasing
\* boundaries (the first interval has no lower bound, the last no upper
\* bound, each lower bound is the previous interval's `below`, every Range
\* has from < below) and every input value lies in exactly one interval.
C1_Partition ==
    Returned /\ sorted # <<>> =>
        /\ Len(result) >= 1
        /\ ~has_from(result[1])
        /\ ~has_below(result[Len(result)])
        /\ \A i \in 1 .. Len(result) - 1 :
               /\ has_below(result[i])
               /\ has_from(result[i + 1])
               /\ result[i + 1].from = result[i].below
        /\ \A i \in 1 .. Len(result) :
               result[i].kind = "Range" => result[i].from < result[i].below
        /\ \A k \in 1 .. Len(sorted) :
               Cardinality({i \in 1 .. Len(result) : matches(result[i], sorted[k][1])}) = 1

\* A returned list with a Lower, a Range and an Upper interval.
C1_Witness ==
    /\ Returned
    /\ Len(result) = 3
    /\ result[2].kind = "Range"

\* The class labels of a list, with every run of equal neighbours reduced
\* to one label.
RECURSIVE RunClasses(_)
RunClasses(list) ==
    IF list = <<>> THEN <<>>
    ELSE IF Len(list) >= 2 /\ list[1].class = list[2].class
         THEN RunClasses(Tail(list))
         ELSE <<list[1].class>> \o RunClasses(Tail(list))

\* C2: no two adjacent intervals of the returned list have the same class;
\* the list has one interval per maximal run of equal classes among the
\* built intervals, in order.
C2_NoEqualNeighbours ==
    Returned /\ sorted # <<>> =>
        /\ \A i \in 1 .. Len(result) - 1 : result[i].class # result[i + 1].class
        /\ [i \in 1 .. Len(result) |-> result[i].class] = RunClasses(intervals)

\* The merge collapsed a run and left at least two intervals.
C2_Witness ==
    /\ Returned
    /\ Len(result) >= 2
    /\ Len(intervals) > Len(result)

\* C3: find_intervals never reaches the "no classes for a split" panic and
\* returns at least one interval, for every input including the empty one.
C3_NeverPanics ==
    /\ pc # "panic"
    /\ (pc = "done" => Len(result) >= 1)

\* The panic is confined to the input without observations.
C3_PanicOnlyWhenEmpty == pc = "panic" => sorted = <<>>

C5_LargeSmallCollapses ==
    Returned /\ sorted # <<>> /\ small >= Len(sorted) =>
        /\ trimmed = <<>>
        /\ Len(result) = 1
        /\ result[1].kind = "Infinite"
        /\ IsMostFrequent(result[1].class, 1 .. Len(sorted))

\* Candidate splits existed and were all dropped by a large `small`.
C5_Witness ==
    /\ Returned
    /\ small >= Len(sorted)
    /\ Len(split_index) >= 2
    /\ result[1].kind = "Infinite"

\* The final list for a threshold s on the current data.
ListFor(s) ==
    remove_redundant(intervals_from_splits(trim_splits(split_index, s, sorted), sorted))

\* The candidates the fold drops because no class is dominant, for
\* threshold s (start_index follows the kept candidates).
RECURSIVE DroppedForSize(_, _, _)
DroppedForSize(i, start, s) ==
    IF i > Len(split_index) THEN {}
    ELSE LET head == split_index[i]
             size == \A c \in Classes : Occurs(c, Segment(start, head)) <= s
             next == IF i = Len(split_index) THEN <<>> ELSE <<split_index[i + 1]>>
             same == next_split_same_class(start, head, sorted, next)
         IN  IF size \/ same
             THEN (IF size THEN {head} ELSE {}) \cup DroppedForSize(i + 1, start, s)
             ELSE DroppedForSize(i + 1, head, s)

\* C6: with small = 0 no candidate is dropped by the no-dominant-class
\* test, the returned list is the one obtained by keeping every candidate
\* split, building and merging, and no threshold yields a longer list.
C6_SmallZeroKeepsAll ==
    Returned /\ sorted # <<>> /\ small = 0 =>
        /\ DroppedForSize(1, 0, 0) = {}
        /\ result = merge_neighbours_with_same_class(intervals_from_splits(split_index, sorted))
        /\ \A s \in Smalls : Len(ListFor(s)) <= Len(result)

\* The same on the inputs with at most two classes.
C6_HoldsForTwoClasses ==
    ~IsTieInput => C6_SmallZeroKeepsAll

\* C7: on the golf data with small = 3 trimming keeps the splits at 71 and
\* 85, the builder yields two "p" intervals below 85, and the result is
\* [Lower 85 p, Upper 85 d], for every hasher.
C7_Golf ==
    Returned /\ IsGolf /\ small = 3 =>
        /\ trimmed = <<5, 13>>
        /\ sorted[5 + 1][1] = 71 /\ sorted[13 + 1][1] = 85
        /\ intervals = <<Lower(71, "p"), Range(71, 85, "p"), Upper(85, "d")>>
        /\ result = <<Lower(85, "p"), Upper(85, "d")>>

\* The golf call has returned.
C7_Witness == Returned /\ IsGolf /\ small = 3 /\ Len(result) = 2

\* The intervals of q_list that contain the queried value.
Matching == {i \in 1 .. Len(q_list) : matches(q_list[i], Head(query))}

\* C8: quantize returns the first interval containing the value, nothing
\* when there is none; on a list find_intervals returned exactly one
\* interval contains the value; on the documented list 10, 15 and 99 map
\* to x, y and z.
C8_Quantize ==
    query # <<>> =>
        /\ Matching = {} => found = <<>>
        /\ Matching # {} =>
               found = <<q_list[CHOOSE i \in Matching : \A j \in Matching : i <= j]>>
        /\ pc = "done" => Cardinality(Matching) = 1 /\ found # <<>>
        /\ q_list = DocList /\ query = <<10>> => found = <<Lower(15, "x")>>
        /\ q_list = DocList /\ query = <<15>> => found = <<Range(15, 20, "y")>>
        /\ q_list = DocList /\ query = <<99>> => found = <<Upper(20, "z")>>

\* quantize found the middle interval of a list find_intervals returned.
C8_Witness ==
    /\ pc = "done"
    /\ query # <<>>
    /\ Len(q_list) = 3
    /\ found = <<q_list[2]>>

\* The fold of C9: from candidate i on, with the segment starting at
\* `start`, keep a candidate exactly when some class occurs more than
\* `small` times in [start, head) and it is the last candidate or the
\* majority classes of [start, head) and [head, next) differ.
RECURSIVE KeptFrom(_, _)
KeptFrom(i, start) ==
    IF i > Len(split_index) THEN <<>>
    ELSE LET head == split_index[i]
             last == i = Len(split_index)
             kept ==
                 /\ HasDominant(Segment(start, head))
                 /\ \/ last
                    \/ most_frequest_class(start, head, sorted)
                           # most_frequest_class(head, split_index[i + 1], sorted)
         IN  IF kept THEN <<head>> \o KeptFrom(i + 1, head) ELSE KeptFrom(i + 1, start)

\* C9: trim_splits returns the candidates kept by that fold, started at
\* start_index 0.
C9_TrimFold ==
    pc = "trimmed" => trimmed = KeptFrom(1, 0)

\* A trim that dropped some candidates and kept others, the last included.
C9_Witness ==
    /\ pc = "trimmed"
    /\ Len(split_index) >= 3
    /\ Len(trimmed) >= 2
    /\ Len(trimmed) < Len(split_index)
    /\ trimmed[Len(trimmed)] = split_index[Len(split_index)]

\* C10: every interval of the returned list is labelled with a most
\* frequent class of the observations it covers.
C10_LabelIsMostFrequent ==
    Returned /\ sorted # <<>> =>
        \A i \in 1 .. Len(result) : IsMostFrequent(result[i].class, Covered(result[i]))

\* A merged interval in which two classes tie.
C10_Witness ==
    /\ Returned
    /\ Len(intervals) > Len(result)
    /\ \E i \in 1 .. Len(result) :
           \E c \in Classes :
               /\ c # result[i].class
               /\ Occurs(c, Covered(result[i])) = Occurs(result[i].class, Covered(result[i]))

====
